---- MODULE Spec2Model ----
(***************************************************************************)
(* Model of assistant.py: the menu loop run_demo, the three handlers       *)
(* create_reminder, generate_meeting_brief and schedule_meeting, and       *)
(* get_calendar_service.                                                   *)
(*                                                                         *)
(* Text is modelled as a sequence of tokens.  A string literal of the      *)
(* source is one token; an agent completion is a sequence of Words; an     *)
(* attendee line typed at the console is a sequence of Chars.  f-strings   *)
(* are concatenations, `in` is contiguous-subsequence containment.         *)
(*                                                                         *)
(* The remote services (OAuth, calendar API, completion endpoint) are      *)
(* nondeterministic: each call either raises or returns.  The remote       *)
(* calendar is kept as the set of busy intervals, which is all the program *)
(* ever observes of it (the truthiness of the list result); the full body  *)
(* of every insert is kept in the call log.                                *)
(***************************************************************************)
EXTENDS Integers, Sequences, FiniteSets, TLC

VARIABLES
    pc,               \* position: "menu", a handler step, "exited", "crashed"
    crash,            \* which exception escaped run_demo ("none" if none)
    token,            \* state of the token.json file
    today,            \* datetime.date.today(), as a day number
    calendar,         \* remote primary calendar: set of busy intervals
    last,             \* handler of the current / most recent call
    task_description, \* argument of create_reminder
    meeting_notes,    \* argument of generate_meeting_brief
    meeting_title,    \* arguments of schedule_meeting
    duration_minutes,
    date_str,
    result,           \* create_reminder: result.final_output
    start_time,       \* schedule_meeting locals
    end_time,
    attendee_emails,
    attendees,
    ret,              \* value returned by the most recent handler call (printed)
    log               \* external calls made by the current / most recent call

vars == <<pc, crash, token, today, calendar, last, task_description,
          meeting_notes, meeting_title, duration_minutes, date_str, result,
          start_time, end_time, attendee_emails, attendees, ret, log>>

----------------------------------------------------------------------------
(* Bounds *)

MaxOut == 3      \* longest agent completion, in words
MaxInput == 3    \* longest free attendee line, in characters
MaxDay == 2      \* days on which "today" may fall

----------------------------------------------------------------------------
(* Input alphabets *)

SeqsUpTo(S, n) == UNION {[1..k -> S] : k \in 0..n}

Sentinel == <<"Handoff to", "SchedulingAgent">>

Words == {"Handoff to", "SchedulingAgent", "call"}

\* completions of the TaskAgent
AgentOutputs == SeqsUpTo(Words, MaxOut)

\* completions of the SchedulingAgent, which schedule_meeting returns untested
ConfirmOutputs == {<<>>, <<"call">>, Sentinel}

Chars == {"a", "@", ",", " "}

\* "a@, a, @a": the shape of "a@x.com, bad, b@y.com"
ExampleInput == <<"a", "@", ",", " ", "a", ",", " ", "@", "a">>

AttendeeInputs == SeqsUpTo(Chars, MaxInput) \cup {ExampleInput}

Dates == <<"2025-03-10", "2025-03-11", "2025-03-12", "2025-03-13", "2025-03-14">>

DateInputs == {"2025-03-10", "2025-03-11", "next monday"}

DurationInputs == {"30", "60", "half an hour"}

Titles == {"Sync"}

Tasks == {"Call client tomorrow"}

Notes == {"Discussed project timeline"}

TokenStates == {"absent", "valid", "expired", "norefresh"}

----------------------------------------------------------------------------
(* Pure helpers *)

\* Python: sub in s
Contains(s, sub) ==
    \E i \in 0..(Len(s) - Len(sub)) : SubSeq(s, i + 1, i + Len(sub)) = sub

\* Python: s.strip(), the only whitespace of Chars being the blank
RECURSIVE Strip(_)
Strip(s) ==
    IF s = <<>> THEN s
    ELSE IF Head(s) = " " THEN Strip(Tail(s))
    ELSE IF s[Len(s)] = " " THEN Strip(SubSeq(s, 1, Len(s) - 1))
    ELSE s

\* Python: s.split(',')
RECURSIVE Split(_)
Split(s) ==
    IF \A i \in 1..Len(s) : s[i] # ","
    THEN <<s>>
    ELSE LET i == CHOOSE j \in 1..Len(s) :
                      s[j] = "," /\ \A k \in 1..(j - 1) : s[k] # ","
         IN <<SubSeq(s, 1, i - 1)>> \o Split(SubSeq(s, i + 1, Len(s)))

\* Python: sep.join(parts)
RECURSIVE Join(_, _)
Join(parts, sep) ==
    IF parts = <<>> THEN <<>>
    ELSE IF Len(parts) = 1 THEN parts[1]
    ELSE parts[1] \o sep \o Join(Tail(parts), sep)

\* int(input(...)) on the duration line
IsInt(s) == s \in {"30", "60"}

IntOf(s) == IF s = "30" THEN 30 ELSE 60

\* datetime.datetime.strptime(date_str, '%Y-%m-%d'): day number, 0 = ValueError
Strptime(s) ==
    IF \E i \in 1..Len(Dates) : Dates[i] = s
    THEN CHOOSE i \in 1..Len(Dates) : Dates[i] = s
    ELSE 0

\* date.isoformat() / strftime('%Y-%m-%d')
IsoFormat(d) == Dates[d]

MinutesPerDay == 1440

MeetingHour == 9

\* variant: the hour is not replaced
StartTime_Midnight(day) == (day - 1) * MinutesPerDay

\* est.localize(start_date.replace(hour=9, minute=0, ...)), in minutes
StartTime(day) == (day - 1) * MinutesPerDay + MeetingHour * 60

\* start_time + datetime.timedelta(minutes=duration_minutes)
EndTime(start, minutes) == start + minutes

----------------------------------------------------------------------------
(* String literals of the source *)

ReminderRejectMsg ==
    <<"Reminder creation requires scheduling, but this function is for reminders only.">>

BriefRejectMsg == <<"Meeting brief generation does not require scheduling.">>

BusyMsg == <<"Time slot is busy. Please choose another date.">>

InvalidChoiceMsg == <<"Invalid choice. Please try again.">>

ScheduleErrorPrefix == "Error scheduling meeting: "

ReminderErrorPrefix == "Error creating reminder: "

BriefErrorPrefix == "Error generating brief: "

CalendarFailedPrefix == "AI reminder created, but calendar integration failed: "

NoneWord == <<"n", "o", "n", "e">>

Unbound == <<<<"<unbound>">>>>

----------------------------------------------------------------------------
(* get_calendar_service *)

\* refreshOK: creds.refresh(Request()) returns; consentOK: the consent flow
\* and the write of token.json succeed.  Result: the value returned or the
\* exception raised, and the token file afterwards.  The `if not creds`
\* return of line 43 is unreachable: every path to it has set creds.
GetCalendarService(tok, refreshOK, consentOK) ==
    LET creds == IF tok = "absent" THEN "none" ELSE tok
    IN  IF creds = "valid"
        THEN [kind |-> "service", msg |-> <<>>, token |-> tok]
        ELSE IF creds = "expired"
        THEN IF refreshOK
             THEN [kind |-> "service", msg |-> <<>>, token |-> tok]
             ELSE [kind |-> "raise", msg |-> <<"<RefreshError>">>, token |-> tok]
        ELSE IF consentOK
             THEN [kind |-> "service", msg |-> <<>>, token |-> "valid"]
             ELSE [kind |-> "error",
                   msg |-> <<"Error authorizing Google Calendar: ",
                             "<ConsentError>",
                             ". Pre-authenticate by running option 3 once and approving the OAuth prompt.">>,
                   token |-> tok]

AuthEntry(svc) == [op |-> "auth", kind |-> svc.kind]

----------------------------------------------------------------------------
(* Handler logic *)

\* variant: the sentinel test is dropped
HasHandoff_Never(out) == FALSE

\* "Handoff to SchedulingAgent" in result.final_output
HasHandoff(out) == Contains(out, Sentinel)

\* variant: the completion is returned whatever it contains
BriefReturn_Verbatim(out) == out

\* generate_meeting_brief after a completion that returned
BriefReturn(out) == IF HasHandoff(out) THEN BriefRejectMsg ELSE out

\* create_reminder: the all-day event
ReminderEvent(desc, out, day) ==
    [summary |-> desc,
     start |-> [date |-> IsoFormat(day)],
     end |-> [date |-> IsoFormat(day + 1)],
     description |-> out]

\* create_reminder: return value after a successful insert
ReminderReturn(out, day) ==
    out \o <<"\nReminder also added to Google Calendar on ", IsoFormat(day), ".">>

\* create_reminder: return value when get_calendar_service returned a string
ReminderAuthFailed(out, service) == <<CalendarFailedPrefix>> \o service

\* create_reminder: except Exception as e
ReminderExcept(text) == <<ReminderErrorPrefix>> \o text

\* variant: the conflict test is dropped
SlotBusy_Never(events) == FALSE

\* schedule_meeting: if events
SlotBusy(events) == events # {}

\* attendee_emails = [email.strip() for email in attendees_input.split(',')]
AttendeeEmails(inp) ==
    LET parts == Split(inp)
    IN  [i \in 1..Len(parts) |-> Strip(parts[i])]

\* variant: the '@' test is dropped
ValidEmail_NonEmpty(email) == email # <<>>

\* email and '@' in email
ValidEmail(email) == email # <<>> /\ Contains(email, <<"@">>)

\* attendees = [{'email': email} for email in attendee_emails if ...]
AttendeeList(emails) ==
    LET kept == SelectSeq(emails, ValidEmail)
    IN  [i \in 1..Len(kept) |-> [email |-> kept[i]]]

\* the locals after the attendee prompt
ParseAttendees(inp) ==
    IF Strip(inp) # <<>>
    THEN [attendee_emails |-> AttendeeEmails(inp),
          attendees |-> AttendeeList(AttendeeEmails(inp))]
    ELSE [attendee_emails |-> Unbound, attendees |-> <<>>]

MeetingEvent(title, start, end, att) ==
    [summary |-> title,
     start |-> [dateTime |-> start, timeZone |-> "America/New_York"],
     end |-> [dateTime |-> end, timeZone |-> "America/New_York"],
     attendees |-> att]

\* ', '.join(attendee_emails) if attendees else 'none'
ConfirmAttendees(att, emails) ==
    IF att # <<>> THEN Join(emails, <<",", " ">>) ELSE NoneWord

ConfirmPrompt(title, date, minutes, att, emails) ==
    [title |-> title, date |-> date, minutes |-> minutes,
     attendees |-> ConfirmAttendees(att, emails)]

\* schedule_meeting: except Exception as e.  content: "none" when the
\* exception has no 'content' attribute, "json" when it decodes, "garbage"
\* when json.loads raises.
ScheduleExcept(e) ==
    IF e.content = "none"
    THEN [kind |-> "return", ret |-> <<ScheduleErrorPrefix, e.text>>]
    ELSE IF e.content = "json"
    THEN [kind |-> "return",
          ret |-> <<ScheduleErrorPrefix, e.text, " - Details: ", "<error_details>">>]
    ELSE [kind |-> "raise", ret |-> <<>>]

\* exceptions of the calendar client: HttpError carries content, transport
\* errors do not
CalendarErrors ==
    {[text |-> "<HttpError>", content |-> "json"],
     [text |-> "<HttpError>", content |-> "garbage"],
     [text |-> "<TransportError>", content |-> "none"]}

AgentError == [text |-> "<AgentError>", content |-> "none"]

DateError == [text |-> "<ValueError>", content |-> "none"]

----------------------------------------------------------------------------
(* Remote calendar *)

\* the interval an inserted event occupies
BusyInterval(body) ==
    IF "date" \in DOMAIN body.start
    THEN [start |-> (Strptime(body.start.date) - 1) * MinutesPerDay,
          end |-> (Strptime(body.end.date) - 1) * MinutesPerDay]
    ELSE [start |-> body.start.dateTime, end |-> body.end.dateTime]

\* events().list(timeMin, timeMax): events ending after timeMin and
\* starting before timeMax
ListEvents(cal, timeMin, timeMax) ==
    {ev \in cal : ev.start < timeMax /\ ev.end > timeMin}

----------------------------------------------------------------------------
(* State machine *)

Init ==
    /\ pc = "menu"
    /\ crash = "none"
    /\ token \in TokenStates
    /\ today \in 1..MaxDay
    /\ calendar = {}
    /\ last = "none"
    /\ task_description = ""
    /\ meeting_notes = ""
    /\ meeting_title = ""
    /\ duration_minutes = 0
    /\ date_str = ""
    /\ result = <<>>
    /\ start_time = 0
    /\ end_time = 0
    /\ attendee_emails = Unbound
    /\ attendees = <<>>
    /\ ret = <<>>
    /\ log = <<>>

\* a fresh handler frame
NewCall(handler) ==
    /\ last' = handler
    /\ result' = <<>>
    /\ start_time' = 0
    /\ end_time' = 0
    /\ attendee_emails' = Unbound
    /\ attendees' = <<>>
    /\ ret' = <<>>
    /\ log' = <<>>

NoArgs ==
    /\ task_description' = ""
    /\ meeting_notes' = ""
    /\ meeting_title' = ""
    /\ duration_minutes' = 0
    /\ date_str' = ""

\* the handler returns r to run_demo, which prints it and prompts again
Return(r) ==
    /\ pc' = "menu"
    /\ ret' = r
    /\ crash' = crash

\* an exception leaves the handler and run_demo
Escape(cause) ==
    /\ pc' = "crashed"
    /\ crash' = cause
    /\ ret' = <<>>

Args == <<task_description, meeting_notes, meeting_title, duration_minutes, date_str>>

Locals == <<result, start_time, end_time, attendee_emails, attendees>>

(* run_demo *)

ChooseReminder ==
    /\ pc = "menu"
    /\ \E task \in Tasks :
        /\ NewCall("create_reminder")
        /\ task_description' = task
        /\ meeting_notes' = ""
        /\ meeting_title' = ""
        /\ duration_minutes' = 0
        /\ date_str' = ""
    /\ pc' = "cr_agent"
    /\ UNCHANGED <<crash, token, today, calendar>>

ChooseBrief ==
    /\ pc = "menu"
    /\ \E notes \in Notes :
        /\ NewCall("generate_meeting_brief")
        /\ meeting_notes' = notes
        /\ task_description' = ""
        /\ meeting_title' = ""
        /\ duration_minutes' = 0
        /\ date_str' = ""
    /\ pc' = "gb_agent"
    /\ UNCHANGED <<crash, token, today, calendar>>

\* option 3: int(input(...)) raises ValueError on a non-integer line
ChooseSchedule ==
    /\ pc = "menu"
    /\ \E title \in Titles, duration \in DurationInputs, date \in DateInputs :
        IF IsInt(duration)
        THEN /\ NewCall("schedule_meeting")
             /\ meeting_title' = title
             /\ duration_minutes' = IntOf(duration)
             /\ date_str' = date
             /\ task_description' = ""
             /\ meeting_notes' = ""
             /\ pc' = "sm_auth"
             /\ crash' = crash
        ELSE /\ NewCall("none")
             /\ NoArgs
             /\ pc' = "crashed"
             /\ crash' = "ValueError in int()"
    /\ UNCHANGED <<token, today, calendar>>

ChooseExit ==
    /\ pc = "menu"
    /\ pc' = "exited"
    /\ NewCall("none")
    /\ NoArgs
    /\ UNCHANGED <<crash, token, today, calendar>>

ChooseInvalid ==
    /\ pc = "menu"
    /\ last' = "invalid"
    /\ ret' = InvalidChoiceMsg
    /\ log' = <<>>
    /\ NoArgs
    /\ result' = <<>>
    /\ start_time' = 0
    /\ end_time' = 0
    /\ attendee_emails' = Unbound
    /\ attendees' = <<>>
    /\ UNCHANGED <<pc, crash, token, today, calendar>>

(* create_reminder *)

AgentEntry(agent, prompt, ok, out) ==
    [op |-> "agent", agent |-> agent, prompt |-> prompt, ok |-> ok, out |-> out]

\* Runner.run_sync(task_agent, ...) and the sentinel test
ReminderAgent ==
    /\ pc = "cr_agent"
    /\ \/ /\ log' = Append(log, AgentEntry("TaskAgent", task_description, FALSE, <<>>))
          /\ Return(ReminderExcept(<<AgentError.text>>))
          /\ result' = result
       \/ \E out \in AgentOutputs :
            /\ log' = Append(log, AgentEntry("TaskAgent", task_description, TRUE, out))
            /\ result' = out
            /\ IF HasHandoff(out)
               THEN Return(ReminderRejectMsg)
               ELSE pc' = "cr_auth" /\ ret' = ret /\ crash' = crash
    /\ UNCHANGED <<token, today, calendar, last, Args, start_time, end_time,
                   attendee_emails, attendees>>

\* service = get_calendar_service(), inside the try
ReminderAuth ==
    /\ pc = "cr_auth"
    /\ \E refreshOK \in BOOLEAN, consentOK \in BOOLEAN :
        LET svc == GetCalendarService(token, refreshOK, consentOK)
        IN  /\ token' = svc.token
            /\ log' = Append(log, AuthEntry(svc))
            /\ IF svc.kind = "service"
               THEN pc' = "cr_insert" /\ ret' = ret /\ crash' = crash
               ELSE IF svc.kind = "error"
               THEN Return(ReminderAuthFailed(result, svc.msg))
               ELSE Return(ReminderExcept(svc.msg))
    /\ UNCHANGED <<today, calendar, last, Args, Locals>>

InsertEntry(body, ok) == [op |-> "insert", body |-> body, ok |-> ok]

\* service.events().insert(...).execute() and the return
ReminderInsert ==
    /\ pc = "cr_insert"
    /\ LET event == ReminderEvent(task_description, result, today)
       IN  \/ \E e \in CalendarErrors :
                /\ log' = Append(log, InsertEntry(event, FALSE))
                /\ Return(ReminderExcept(<<e.text>>))
                /\ calendar' = calendar
           \/ /\ log' = Append(log, InsertEntry(event, TRUE))
              /\ calendar' = calendar \cup {BusyInterval(event)}
              /\ Return(ReminderReturn(result, today))
    /\ UNCHANGED <<token, today, last, Args, Locals>>

(* generate_meeting_brief *)

BriefAgent ==
    /\ pc = "gb_agent"
    /\ \/ /\ log' = Append(log, AgentEntry("TaskAgent", meeting_notes, FALSE, <<>>))
          /\ Return(<<BriefErrorPrefix, AgentError.text>>)
       \/ \E out \in AgentOutputs :
            /\ log' = Append(log, AgentEntry("TaskAgent", meeting_notes, TRUE, out))
            /\ Return(BriefReturn(out))
    /\ UNCHANGED <<token, today, calendar, last, Args, Locals>>

(* schedule_meeting *)

\* the except clause entered with exception e
ScheduleRaise(e) ==
    LET h == ScheduleExcept(e)
    IN  IF h.kind = "return"
        THEN Return(h.ret)
        ELSE Escape("JSONDecodeError in schedule_meeting")

\* service = get_calendar_service(), before the try
ScheduleAuth ==
    /\ pc = "sm_auth"
    /\ \E refreshOK \in BOOLEAN, consentOK \in BOOLEAN :
        LET svc == GetCalendarService(token, refreshOK, consentOK)
        IN  /\ token' = svc.token
            /\ log' = Append(log, AuthEntry(svc))
            /\ IF svc.kind = "service"
               THEN pc' = "sm_list" /\ ret' = ret /\ crash' = crash
               ELSE IF svc.kind = "error"
               THEN Return(svc.msg)
               ELSE Escape("RefreshError in get_calendar_service")
    /\ UNCHANGED <<today, calendar, last, Args, Locals>>

ListEntry(timeMin, timeMax, ok, items) ==
    [op |-> "list", timeMin |-> timeMin, timeMax |-> timeMax, ok |-> ok,
     items |-> items]

\* strptime, the window, events().list(...).execute() and the busy test
ScheduleList ==
    /\ pc = "sm_list"
    /\ LET day == Strptime(date_str)
           st == StartTime(day)
           en == EndTime(st, duration_minutes)
       IN  IF day = 0
           THEN /\ ScheduleRaise(DateError)
                /\ UNCHANGED <<log, start_time, end_time>>
           ELSE /\ start_time' = st
                /\ end_time' = en
                /\ \/ \E e \in CalendarErrors :
                        /\ log' = Append(log, ListEntry(st, en, FALSE, {}))
                        /\ ScheduleRaise(e)
                   \/ LET events == ListEvents(calendar, st, en)
                      IN  /\ log' = Append(log, ListEntry(st, en, TRUE, events))
                          /\ IF SlotBusy(events)
                             THEN Return(BusyMsg)
                             ELSE pc' = "sm_prompt" /\ ret' = ret /\ crash' = crash
    /\ UNCHANGED <<token, today, calendar, last, Args, result, attendee_emails,
                   attendees>>

\* input("Enter attendee email addresses ...") and the filter
SchedulePrompt ==
    /\ pc = "sm_prompt"
    /\ \E attendees_input \in AttendeeInputs :
        LET parsed == ParseAttendees(attendees_input)
        IN  /\ attendee_emails' = parsed.attendee_emails
            /\ attendees' = parsed.attendees
            /\ log' = Append(log, [op |-> "prompt", input |-> attendees_input])
    /\ pc' = "sm_insert"
    /\ UNCHANGED <<crash, token, today, calendar, last, Args, result,
                   start_time, end_time, ret>>

\* event = service.events().insert(...).execute()
ScheduleInsert ==
    /\ pc = "sm_insert"
    /\ LET event == MeetingEvent(meeting_title, start_time, end_time, attendees)
       IN  \/ \E e \in CalendarErrors :
                /\ log' = Append(log, InsertEntry(event, FALSE))
                /\ ScheduleRaise(e)
                /\ calendar' = calendar
           \/ /\ log' = Append(log, InsertEntry(event, TRUE))
              /\ calendar' = calendar \cup {BusyInterval(event)}
              /\ pc' = "sm_agent" /\ ret' = ret /\ crash' = crash
    /\ UNCHANGED <<token, today, last, Args, Locals>>

\* Runner.run_sync(scheduling_agent, ...) and the return
ScheduleAgent ==
    /\ pc = "sm_agent"
    /\ LET prompt == ConfirmPrompt(meeting_title, date_str, duration_minutes,
                                   attendees, attendee_emails)
       IN  \/ /\ log' = Append(log, AgentEntry("SchedulingAgent", prompt, FALSE, <<>>))
              /\ ScheduleRaise(AgentError)
           \/ \E out \in ConfirmOutputs :
                /\ log' = Append(log, AgentEntry("SchedulingAgent", prompt, TRUE, out))
                /\ Return(out)
    /\ UNCHANGED <<token, today, calendar, last, Args, Locals>>

Next ==
    \/ ChooseReminder
    \/ ChooseBrief
    \/ ChooseSchedule
    \/ ChooseExit
    \/ ChooseInvalid
    \/ ReminderAgent
    \/ ReminderAuth
    \/ ReminderInsert
    \/ BriefAgent
    \/ ScheduleAuth
    \/ ScheduleList
    \/ SchedulePrompt
    \/ ScheduleInsert
    \/ ScheduleAgent

Spec == Init /\ [][Next]_vars

----------------------------------------------------------------------------
(* Properties *)

Idx == 1..Len(log)

Ops == [i \in Idx |-> log[i].op]

IsPrefix(s, t) == Len(s) <= Len(t) /\ SubSeq(t, 1, Len(s)) = s

InSchedule == last = "schedule_meeting"

InReminder == last = "create_reminder"

InBrief == last = "generate_meeting_brief"

\* C1: in schedule_meeting, once the conflict query has returned at least
\* one event, the call has returned exactly the busy message and has made
\* no insert, shown no attendee prompt and invoked no agent.
C1_BusySlotNoInsert ==
    \A i \in Idx :
        (InSchedule /\ log[i].op = "list" /\ log[i].ok /\ log[i].items # {})
        => /\ pc = "menu"
           /\ ret = <<"Time slot is busy. Please choose another date.">>
           /\ \A j \in Idx : log[j].op \notin {"insert", "prompt", "agent"}

C1_Witness ==
    /\ InSchedule
    /\ pc = "menu"
    /\ \E i \in Idx : log[i].op = "list" /\ log[i].ok /\ log[i].items # {}

\* C2: in create_reminder, when the TaskAgent completion succeeded without
\* the sentinel and the calendar step failed (authentication returned an
\* error string, or insert raised), the returned string contains the
\* agent's output.
C2_AgentTextKept ==
    (/\ InReminder
     /\ pc = "menu"
     /\ \E i \in Idx : /\ log[i].op = "agent" /\ log[i].ok
                       /\ ~Contains(log[i].out, Sentinel)
     /\ \E i \in Idx : \/ log[i].op = "auth" /\ log[i].kind = "error"
                       \/ log[i].op = "insert" /\ ~log[i].ok)
    => \A i \in Idx : log[i].op = "agent" => Contains(ret, log[i].out)

\* C3: get_calendar_service never raises, and no authentication failure
\* terminates the menu loop.
C3_AuthNeverRaises ==
    /\ \A i \in Idx : log[i].op = "auth" => log[i].kind \in {"service", "error"}
    /\ crash # "RefreshError in get_calendar_service"

\* C4: no exception leaves schedule_meeting: whatever fails during the
\* call, the menu loop is not terminated by it.
C4_ScheduleNeverRaises == InSchedule => pc # "crashed"

\* C5: in create_reminder, an insert is made only after the TaskAgent
\* completion of the same call returned without the sentinel; after a
\* raised or sentinel completion there is neither authentication nor
\* insert; there is at most one insert, of an all-day event from today to
\* tomorrow carrying the agent's text.
C5_InsertOnlyAfterCompletion ==
    InReminder =>
        /\ \A i \in Idx :
              log[i].op \in {"auth", "insert"} =>
                 \E j \in 1..(i - 1) :
                     /\ log[j].op = "agent"
                     /\ log[j].agent = "TaskAgent"
                     /\ log[j].ok
                     /\ ~Contains(log[j].out, Sentinel)
                     /\ log[i].op = "insert" =>
                           /\ log[i].body.description = log[j].out
                           /\ log[i].body.summary = task_description
                           /\ log[i].body.start = [date |-> Dates[today]]
                           /\ log[i].body.end = [date |-> Dates[today + 1]]
        /\ Cardinality({i \in Idx : log[i].op = "insert"}) <= 1
        /\ Cardinality({i \in Idx : log[i].op = "agent"}) <= 1

C5_Witness ==
    /\ InReminder
    /\ pc = "menu"
    /\ \E i \in Idx : log[i].op = "insert" /\ log[i].ok
    /\ calendar # {}

\* the comma-separated entries of a line, by position
Commas(inp) == {p \in 1..Len(inp) : inp[p] = ","}

Cut(inp, k) ==
    IF k = 0 THEN 0
    ELSE IF k > Cardinality(Commas(inp)) THEN Len(inp) + 1
    ELSE CHOOSE p \in Commas(inp) :
             Cardinality({q \in Commas(inp) : q <= p}) = k

Entry(inp, k) == SubSeq(inp, Cut(inp, k - 1) + 1, Cut(inp, k) - 1)

Trimmed(e) ==
    LET nb == {p \in 1..Len(e) : e[p] # " "}
    IN  IF nb = {} THEN <<>>
        ELSE SubSeq(e, CHOOSE p \in nb : \A q \in nb : p <= q,
                       CHOOSE p \in nb : \A q \in nb : q <= p)

HasAt(e) == \E p \in 1..Len(e) : e[p] = "@"

ExpectedAttendees(inp) ==
    LET n == Cardinality(Commas(inp)) + 1
        all == [k \in 1..n |-> Trimmed(Entry(inp, k))]
        kept == SelectSeq(all, HasAt)
    IN  [k \in 1..Len(kept) |-> [email |-> kept[k]]]

\* C6: the attendees of the event schedule_meeting inserts are exactly the
\* whitespace-trimmed comma-separated entries of the attendee line that
\* contain "@", in input order.
C6_AttendeeFilter ==
    InSchedule =>
        \A i \in Idx :
            log[i].op = "insert" =>
                \E j \in 1..(i - 1) :
                    /\ log[j].op = "prompt"
                    /\ log[i].body.attendees = ExpectedAttendees(log[j].input)

C6_Witness ==
    /\ InSchedule
    /\ \E i \in Idx, j \in Idx :
          /\ log[j].op = "prompt"
          /\ log[j].input = ExampleInput
          /\ log[i].op = "insert"
          /\ log[i].ok
          /\ log[i].body.attendees =
                <<[email |-> <<"a", "@">>], [email |-> <<"@", "a">>]>>

\* C7: a generate_meeting_brief call whose completion contains the sentinel
\* returns the fixed rejection message and not the completion; so does
\* create_reminder with its own message; without the sentinel
\* generate_meeting_brief returns the completion verbatim.
C7_SentinelRejected ==
    \A i \in Idx :
        (log[i].op = "agent" /\ log[i].ok /\ pc = "menu") =>
            /\ (InBrief /\ Contains(log[i].out, Sentinel)) =>
                  /\ ret = <<"Meeting brief generation does not require scheduling.">>
                  /\ ret # log[i].out
            /\ (InBrief /\ ~Contains(log[i].out, Sentinel)) => ret = log[i].out
            /\ (InReminder /\ Contains(log[i].out, Sentinel)) =>
                  /\ ret = <<"Reminder creation requires scheduling, but this function is for reminders only.">>
                  /\ ret # log[i].out

C7_Witness ==
    /\ InBrief
    /\ pc = "menu"
    /\ \E i \in Idx : /\ log[i].op = "agent" /\ log[i].ok
                      /\ Contains(log[i].out, Sentinel)
                      /\ log[i].out # Sentinel
    /\ ret = BriefRejectMsg

HappyPath == <<"auth", "list", "prompt", "insert", "agent">>

DayOf(s) == CHOOSE d \in 1..Len(Dates) : Dates[d] = s

C9_PromptNamesAttached ==
    InSchedule =>
        \A i \in Idx :
            log[i].op = "agent" =>
                \E j \in 1..(i - 1) :
                    /\ log[j].op = "insert"
                    /\ LET att == log[j].body.attendees
                           emails == [k \in 1..Len(att) |-> att[k].email]
                       IN  log[i].prompt.attendees =
                              IF att = <<>> THEN NoneWord
                              ELSE Join(emails, <<",", " ">>)

\* C10: a schedule_meeting call that returns anything but the
\* SchedulingAgent's confirmation has inserted no event.
C10_AllOrNothing ==
    (/\ InSchedule
     /\ pc = "menu"
     /\ ~(log # <<>> /\ log[Len(log)].op = "agent" /\ log[Len(log)].ok))
    => \A i \in Idx : ~(log[i].op = "insert" /\ log[i].ok)

====
